---- MODULE Spec2Model ----
(***************************************************************************)
(* Model of src/app.py (Fynstra): the Financial Health Index scoring       *)
(* functions, the input validator, the calculation click handler, the      *)
(* What-If sandbox, the peer benchmark, the consent gate, the Google       *)
(* Sheets logging, the Users sheet upsert, with_backoff and chat retention.*)
(*                                                                         *)
(* Numbers.  Money amounts are whole pesos (Integers).  Scores are exact   *)
(* rationals [n |-> numerator, d |-> denominator] in lowest terms with     *)
(* d > 0; the Python code computes them in IEEE doubles, so the model is   *)
(* the real-number reading of the same expressions.  A record with d = 0   *)
(* stands for a raised ZeroDivisionError.                                  *)
(***************************************************************************)
EXTENDS Integers, Sequences, FiniteSets, TLC

VARIABLES
    \* ---- function-level harness (SpecScore) ----
    profile,            \* arguments handed to the pure functions
    validation,         \* value returned by validate_financial_inputs, or NoValue
    result,             \* value returned by calculate_fhi, or NoValue
    explained,          \* value returned by explain_fhi, or NoValue
    scenario_delta,     \* percentage and absolute deltas of a what-if scenario
    scenario,           \* scenario inputs derived from profile, or NoValue
    old_components,     \* first argument of top_component_changes
    new_components,     \* second argument of top_component_changes
    top_k,              \* argument k of top_component_changes
    movers,             \* value returned by top_component_changes, or NoValue
    peer_report,        \* the three "vs peers" metrics shown with the results
    consent_storage,    \* st.session_state["consent_storage"]
    analytics_opt_in,   \* st.session_state["analytics_opt_in"]
    auth_method,        \* st.session_state["auth_method"]
    sheet_writes,       \* rows written to the Google Sheet so far
    storage_ops,        \* which of the logging operations have been run
    users_rows,         \* data rows of the Users sheet, in sheet order
    upsert_pc,          \* per session: position inside upsert_user_row
    upsert_view,        \* per session: user id and found_row_idx of the running upsert
    backoff_tries,      \* argument tries of the with_backoff call
    backoff_i,          \* loop variable i of with_backoff
    backoff_pc,         \* "call", "sleep" or "done"
    backoff_log,        \* outcome of every fn() invocation so far
    backoff_outcome,    \* how with_backoff ended, or NoValue
    retention_mode,     \* st.session_state["retention_mode"]
    chat_history,       \* st.session_state.chat_history (entries by submission number)
    chat_count,         \* number of chat questions submitted so far
    \* ---- application session (Spec) ----
    form,               \* current values of the eight number_input widgets
    consent_ready,      \* st.session_state["consent_ready"]
    consent_processing, \* st.session_state["consent_processing"]
    consent_snapshot,   \* st.session_state["__consent_snapshot"]
    FHI,                \* st.session_state["FHI"]
    components,         \* st.session_state["components"]
    inputs_for_pdf,     \* st.session_state["inputs_for_pdf"]
    show_results,       \* st.session_state["show_results"]
    delta,              \* What-If sliders and preset absolute deltas of the run
    sandbox,            \* base/scenario values computed by the sandbox in the run
    messages,           \* st.error / st.warning / st.info shown by the click handler
    run_outcome,        \* how the latest script run ended
    scorer_calls        \* arguments of every calculate_fhi call of the latest run

pvars == <<peer_report>>
svars == <<consent_storage, analytics_opt_in, auth_method, sheet_writes,
           storage_ops>>
uvars == <<users_rows, upsert_pc, upsert_view>>
bvars == <<backoff_tries, backoff_i, backoff_pc, backoff_log, backoff_outcome>>
cvars == <<retention_mode, chat_history, chat_count>>
xvars == <<pvars, svars, uvars, bvars, cvars>>
fvars == <<profile, validation, result, explained, scenario_delta, scenario,
           old_components, new_components, top_k, movers, xvars>>
wvars == <<scenario_delta, scenario>>
mvars == <<old_components, new_components, top_k, movers>>
avars == <<form, consent_ready, consent_processing, consent_snapshot, FHI,
           components, inputs_for_pdf, show_results, delta, sandbox, messages,
           run_outcome, scorer_calls>>
vars == <<profile, validation, result, explained, scenario_delta, scenario,
          old_components, new_components, top_k, movers, xvars, form,
          consent_ready, consent_processing,
          consent_snapshot, FHI, components, inputs_for_pdf, show_results,
          delta, sandbox, messages, run_outcome, scorer_calls>>

NoValue == [none |-> TRUE]

(***************************************************************************)
(* Bounds of the model.                                                    *)
(***************************************************************************)
MaxUnits == 2

(***************************************************************************)
(* Exact rational arithmetic.                                              *)
(***************************************************************************)
RECURSIVE GCD(_, _)
GCD(a, b) == IF b = 0 THEN a ELSE GCD(b, a % b)

Abs(x) == IF x < 0 THEN -x ELSE x

ZeroDivisionError == [n |-> 1, d |-> 0]

IsErr(r) == r.d = 0

Norm(n, d) ==
    IF d = 0 THEN ZeroDivisionError
    ELSE LET s == IF d < 0 THEN -1 ELSE 1
             g == GCD(Abs(n), Abs(d))
         IN  [n |-> (s * n) \div g, d |-> (s * d) \div g]

R(i) == [n |-> i, d |-> 1]

Rat == [n : Int, d : Int]

\* The operations are functions, so that an argument is evaluated once.
RAddF[a \in Rat, b \in Rat] ==
    IF IsErr(a) \/ IsErr(b) THEN ZeroDivisionError
    ELSE Norm(a.n * b.d + b.n * a.d, a.d * b.d)

RSubF[a \in Rat, b \in Rat] ==
    IF IsErr(a) \/ IsErr(b) THEN ZeroDivisionError
    ELSE Norm(a.n * b.d - b.n * a.d, a.d * b.d)

RMulF[a \in Rat, b \in Rat] ==
    IF IsErr(a) \/ IsErr(b) THEN ZeroDivisionError
    ELSE Norm(a.n * b.n, a.d * b.d)

\* Python's "/" on floats: raises ZeroDivisionError when the divisor is 0.
RDivF[a \in Rat, b \in Rat] ==
    IF IsErr(a) \/ IsErr(b) THEN ZeroDivisionError
    ELSE Norm(a.n * b.d, a.d * b.n)

RLe(a, b) == a.n * b.d <= b.n * a.d
RLt(a, b) == a.n * b.d < b.n * a.d

\* Python's min(a, b) / max(a, b) on two numbers.
RMinF[a \in Rat, b \in Rat] ==
    IF IsErr(a) \/ IsErr(b) THEN ZeroDivisionError
    ELSE IF RLt(b, a) THEN b ELSE a

RMaxF[a \in Rat, b \in Rat] ==
    IF IsErr(a) \/ IsErr(b) THEN ZeroDivisionError
    ELSE IF RLt(a, b) THEN b ELSE a

RAdd(a, b) == RAddF[a, b]
RSub(a, b) == RSubF[a, b]
RMul(a, b) == RMulF[a, b]
RDiv(a, b) == RDivF[a, b]
RMin(a, b) == RMinF[a, b]
RMax(a, b) == RMaxF[a, b]

\* Python's round(x, 2); an exact tie goes to the even hundredth.
Round2(x) ==
    IF IsErr(x) THEN ZeroDivisionError
    ELSE LET num  == x.n * 100
             q    == num \div x.d
             r2   == 2 * (num % x.d)
             up   == r2 > x.d \/ (r2 = x.d /\ q % 2 = 1)
         IN  Norm(IF up THEN q + 1 ELSE q, 100)

\* Python's round(x, 1), also for negative x (ties to the even tenth).
Round1(x) ==
    IF IsErr(x) THEN ZeroDivisionError
    ELSE LET num  == Abs(x.n) * 10
             q    == num \div x.d
             r2   == 2 * (num % x.d)
             up   == r2 > x.d \/ (r2 = x.d /\ q % 2 = 1)
             m    == IF up THEN q + 1 ELSE q
         IN  Norm(IF x.n < 0 THEN -m ELSE m, 10)

\* Python's round(x): nearest whole number, ties to even.
Round0(x) ==
    IF IsErr(x) THEN ZeroDivisionError
    ELSE LET q    == x.n \div x.d
             r2   == 2 * (x.n % x.d)
             up   == r2 > x.d \/ (r2 = x.d /\ q % 2 = 1)
         IN  R(IF up THEN q + 1 ELSE q)

(***************************************************************************)
(* CALCULATION & VALIDATION FUNCTIONS                                      *)
(***************************************************************************)

\* validate_financial_inputs with the error test weakened to debt >= income.
validate_financial_inputs_ge(income, expenses, debt, savings) ==
    [errors   |-> IF debt >= income THEN <<"debt_exceeds_income">> ELSE <<>>,
     warnings |-> (IF expenses > income THEN <<"expenses_exceed_income">> ELSE <<>>)
                  \o (IF RLt(RMul(R(income), [n |-> 11, d |-> 10]),
                             R(savings + expenses + debt))
                      THEN <<"obligations_high">> ELSE <<>>)]

\* validate_financial_inputs without the 10% slack on the obligations test.
validate_financial_inputs_noslack(income, expenses, debt, savings) ==
    [errors   |-> IF debt > income THEN <<"debt_exceeds_income">> ELSE <<>>,
     warnings |-> (IF expenses > income THEN <<"expenses_exceed_income">> ELSE <<>>)
                  \o (IF RLt(R(income), R(savings + expenses + debt))
                      THEN <<"obligations_high">> ELSE <<>>)]

validate_financial_inputs(income, expenses, debt, savings) ==
    [errors   |-> IF debt > income THEN <<"debt_exceeds_income">> ELSE <<>>,
     warnings |-> (IF expenses > income THEN <<"expenses_exceed_income">> ELSE <<>>)
                  \o (IF RLt(RMul(R(income), [n |-> 11, d |-> 10]),
                             R(savings + expenses + debt))
                      THEN <<"obligations_high">> ELSE <<>>)]

ComponentNames ==
    {"Net Worth", "Debt-to-Income", "Savings Rate", "Investment", "Emergency Fund"}

\* The order in which calculate_fhi inserts the components into its dict.
ComponentOrder ==
    <<"Net Worth", "Debt-to-Income", "Savings Rate", "Investment",
      "Emergency Fund">>

\* alpha_beta with the brackets closed at 30, 40 and 50 (age <= ...).
alpha_beta_le(age) ==
    IF age <= 30 THEN [alpha |-> [n |-> 5, d |-> 2], beta |-> R(2)]
    ELSE IF age <= 40 THEN [alpha |-> R(3), beta |-> R(3)]
    ELSE IF age <= 50 THEN [alpha |-> [n |-> 7, d |-> 2], beta |-> R(4)]
    ELSE [alpha |-> R(4), beta |-> R(5)]

\* (alpha, beta) chosen by the if/elif chain on age.
alpha_beta(age) ==
    IF age < 30 THEN [alpha |-> [n |-> 5, d |-> 2], beta |-> R(2)]
    ELSE IF age < 40 THEN [alpha |-> R(3), beta |-> R(3)]
    ELSE IF age < 50 THEN [alpha |-> [n |-> 7, d |-> 2], beta |-> R(4)]
    ELSE [alpha |-> R(4), beta |-> R(5)]

Nworth(net_worth, annual_income, alpha) ==
    IF annual_income > 0
    THEN RMin(RMax(RMul(RDiv(R(net_worth), RMul(R(annual_income), alpha)), R(100)),
                   R(0)), R(100))
    ELSE R(0)

DTI(monthly_debt, monthly_income) ==
    IF monthly_income > 0
    THEN RSub(R(100), RMin(RMul(RDiv(R(monthly_debt), R(monthly_income)), R(100)),
                           R(100)))
    ELSE R(0)

\* Srate evaluated without the "if monthly_income > 0" guard.
Srate_unguarded(monthly_savings, monthly_income) ==
    RMin(RMul(RDiv(R(monthly_savings), R(monthly_income)), R(100)), R(100))

Srate(monthly_savings, monthly_income) ==
    IF monthly_income > 0
    THEN RMin(RMul(RDiv(R(monthly_savings), R(monthly_income)), R(100)), R(100))
    ELSE R(0)

\* Invest without the upper clamp min(..., 100).
Invest_unclamped(total_investments, annual_income, beta) ==
    IF annual_income > 0
    THEN RMax(RMul(RDiv(R(total_investments), RMul(beta, R(annual_income))), R(100)),
              R(0))
    ELSE R(0)

Invest(total_investments, annual_income, beta) ==
    IF annual_income > 0
    THEN RMin(RMax(RMul(RDiv(R(total_investments), RMul(beta, R(annual_income))),
                        R(100)), R(0)), R(100))
    ELSE R(0)

\* Emerg without the division by 6 months.
Emerg_no_months(emergency_fund, monthly_expenses) ==
    IF monthly_expenses > 0
    THEN RMin(RMul(RDiv(R(emergency_fund), R(monthly_expenses)), R(100)), R(100))
    ELSE R(0)

Emerg(emergency_fund, monthly_expenses) ==
    IF monthly_expenses > 0
    THEN RMin(RMul(RDiv(RDiv(R(emergency_fund), R(monthly_expenses)), R(6)), R(100)),
              R(100))
    ELSE R(0)

\* FHI = 0.20*Nworth + 0.15*DTI + 0.15*Srate + 0.15*Invest + 0.20*Emerg + 15
FHI_formula(nw, dti, sr, inv, em) ==
    RAdd(RAdd(RAdd(RAdd(RAdd(RMul([n |-> 20, d |-> 100], nw),
                             RMul([n |-> 15, d |-> 100], dti)),
                        RMul([n |-> 15, d |-> 100], sr)),
                   RMul([n |-> 15, d |-> 100], inv)),
              RMul([n |-> 20, d |-> 100], em)),
         R(15))

\* return FHI, components  (raised: a ZeroDivisionError escaped the function)
fhi_return(fhi, nw, dti, sr, inv, em) ==
    [raised     |-> IsErr(fhi),
     FHI        |-> fhi,
     components |-> [k \in ComponentNames |->
                        CASE k = "Net Worth"      -> nw
                          [] k = "Debt-to-Income" -> dti
                          [] k = "Savings Rate"   -> sr
                          [] k = "Investment"     -> inv
                          [] k = "Emergency Fund" -> em]]

fhi_components(nw, dti, sr, inv, em) ==
    fhi_return(FHI_formula(nw, dti, sr, inv, em), nw, dti, sr, inv, em)

\* calculate_fhi that reads the session: once results are shown it scores the
\* emergency fund as 0.
calculate_fhi_session(age, monthly_income, monthly_expenses, monthly_savings, monthly_debt, total_investments, net_worth, emergency_fund) ==
    fhi_components(Nworth(net_worth, monthly_income * 12, alpha_beta(age).alpha),
                   DTI(monthly_debt, monthly_income),
                   Srate(monthly_savings, monthly_income),
                   Invest(total_investments, monthly_income * 12,
                          alpha_beta(age).beta),
                   IF show_results THEN R(0)
                   ELSE Emerg(emergency_fund, monthly_expenses))

calculate_fhi(age, monthly_income, monthly_expenses, monthly_savings, monthly_debt, total_investments, net_worth, emergency_fund) ==
    fhi_components(Nworth(net_worth, monthly_income * 12, alpha_beta(age).alpha),
                   DTI(monthly_debt, monthly_income),
                   Srate(monthly_savings, monthly_income),
                   Invest(total_investments, monthly_income * 12,
                          alpha_beta(age).beta),
                   Emerg(emergency_fund, monthly_expenses))

(***************************************************************************)
(* WHAT-IF & EXPLAINABILITY HELPERS                                        *)
(***************************************************************************)

\* get_component_weights with a drifted Net Worth weight.
get_component_weights_drift ==
    [k \in ComponentNames \cup {"_base"} |->
        CASE k = "Net Worth"      -> [n |-> 25, d |-> 100]
          [] k = "Debt-to-Income" -> [n |-> 15, d |-> 100]
          [] k = "Savings Rate"   -> [n |-> 15, d |-> 100]
          [] k = "Investment"     -> [n |-> 15, d |-> 100]
          [] k = "Emergency Fund" -> [n |-> 20, d |-> 100]
          [] k = "_base"          -> R(15)]

\* get_component_weights with a heavier Emergency Fund weight.
get_component_weights_heavy ==
    [k \in ComponentNames \cup {"_base"} |->
        CASE k = "Net Worth"      -> [n |-> 20, d |-> 100]
          [] k = "Debt-to-Income" -> [n |-> 15, d |-> 100]
          [] k = "Savings Rate"   -> [n |-> 15, d |-> 100]
          [] k = "Investment"     -> [n |-> 15, d |-> 100]
          [] k = "Emergency Fund" -> [n |-> 25, d |-> 100]
          [] k = "_base"          -> R(15)]

get_component_weights ==
    [k \in ComponentNames \cup {"_base"} |->
        CASE k = "Net Worth"      -> [n |-> 20, d |-> 100]
          [] k = "Debt-to-Income" -> [n |-> 15, d |-> 100]
          [] k = "Savings Rate"   -> [n |-> 15, d |-> 100]
          [] k = "Investment"     -> [n |-> 15, d |-> 100]
          [] k = "Emergency Fund" -> [n |-> 20, d |-> 100]
          [] k = "_base"          -> R(15)]

compute_fhi_from_inputs(age, monthly_income, monthly_expenses, monthly_savings, monthly_debt, total_investments, net_worth, emergency_fund) ==
    calculate_fhi(age, monthly_income, monthly_expenses, monthly_savings,
                  monthly_debt, total_investments, net_worth, emergency_fund)

\* sum(contrib.values()): the values are added in dict order, starting at 0.
RECURSIVE SumValues(_, _)
SumValues(c, i) ==
    IF i = 0 THEN R(0) ELSE RAdd(SumValues(c, i - 1), c[ComponentOrder[i]])

\* explain_fhi that rounds each contribution to a whole number.
explain_fhi_round0(comps) ==
    [contrib        |-> [k \in DOMAIN comps |->
                            Round2(Round0(RMul(comps[k], get_component_weights[k])))],
     total_weighted |-> Round2(SumValues([k \in DOMAIN comps |->
                            Round2(Round0(RMul(comps[k], get_component_weights[k])))],
                            5)),
     base           |-> get_component_weights["_base"]]

\* explain_fhi that spreads the base offset over the five contributions.
explain_fhi_spread_base(comps) ==
    [contrib        |-> [k \in DOMAIN comps |->
                            Round2(RAdd(RMul(comps[k], get_component_weights[k]),
                                        R(3)))],
     total_weighted |-> Round2(SumValues([k \in DOMAIN comps |->
                            Round2(RAdd(RMul(comps[k], get_component_weights[k]),
                                        R(3)))], 5)),
     base           |-> get_component_weights["_base"]]

\* contrib = {k: round(v * w[k], 2)}; total_weighted = round(sum(contrib), 2)
explain_fhi(comps) ==
    [contrib        |-> [k \in DOMAIN comps |->
                            Round2(RMul(comps[k], get_component_weights[k]))],
     total_weighted |-> Round2(SumValues([k \in DOMAIN comps |->
                            Round2(RMul(comps[k], get_component_weights[k]))], 5)),
     base           |-> get_component_weights["_base"]]

\* sorted(items, key=...): Python's sort is stable, so an item goes behind
\* the items already placed whose key is not greater than its own.
RECURSIVE InsertSorted(_, _, _)
InsertSorted(x, s, key) ==
    IF s = <<>> THEN <<x>>
    ELSE IF RLt(key[x], key[Head(s)]) THEN <<x>> \o s
    ELSE <<Head(s)>> \o InsertSorted(x, Tail(s), key)

RECURSIVE SortedBy(_, _)
SortedBy(s, key) ==
    IF s = <<>> THEN <<>>
    ELSE InsertSorted(s[Len(s)], SortedBy(SubSeq(s, 1, Len(s) - 1), key), key)

\* seq[:k]
Take(s, k) == SubSeq(s, 1, IF k < Len(s) THEN k ELSE Len(s))

\* top_component_changes that keeps the unchanged components among the
\* improved ones (filter "delta >= 0").
top_component_changes_ge(old, new, k) ==
    LET deltas == [c \in ComponentNames |-> Round1(RSub(new[c], old[c]))]
        neg    == [c \in ComponentNames |-> RSub(R(0), deltas[c])]
        ups    == SelectSeq(ComponentOrder, LAMBDA c : RLe(R(0), deltas[c]))
        downs  == SelectSeq(ComponentOrder, LAMBDA c : RLt(deltas[c], R(0)))
        pair(c) == <<c, deltas[c]>>
        up_s   == Take(SortedBy(ups, neg), k)
        down_s == Take(SortedBy(downs, deltas), k)
    IN  [up   |-> [i \in 1..Len(up_s) |-> pair(up_s[i])],
         down |-> [i \in 1..Len(down_s) |-> pair(down_s[i])]]

\* top_component_changes that lists the improved components smallest first.
top_component_changes_asc(old, new, k) ==
    LET deltas == [c \in ComponentNames |-> Round1(RSub(new[c], old[c]))]
        ups    == SelectSeq(ComponentOrder, LAMBDA c : RLt(R(0), deltas[c]))
        downs  == SelectSeq(ComponentOrder, LAMBDA c : RLt(deltas[c], R(0)))
        pair(c) == <<c, deltas[c]>>
        up_s   == Take(SortedBy(ups, deltas), k)
        down_s == Take(SortedBy(downs, deltas), k)
    IN  [up   |-> [i \in 1..Len(up_s) |-> pair(up_s[i])],
         down |-> [i \in 1..Len(down_s) |-> pair(down_s[i])]]

\* deltas = {k: round(new[k] - v, 1)}; sorted_up: delta > 0, key -delta;
\* sorted_down: delta < 0, key delta; each cut to k entries.
top_component_changes(old, new, k) ==
    LET deltas == [c \in ComponentNames |-> Round1(RSub(new[c], old[c]))]
        neg    == [c \in ComponentNames |-> RSub(R(0), deltas[c])]
        ups    == SelectSeq(ComponentOrder, LAMBDA c : RLt(R(0), deltas[c]))
        downs  == SelectSeq(ComponentOrder, LAMBDA c : RLt(deltas[c], R(0)))
        pair(c) == <<c, deltas[c]>>
        up_s   == Take(SortedBy(ups, neg), k)
        down_s == Take(SortedBy(downs, deltas), k)
    IN  [up   |-> [i \in 1..Len(up_s) |-> pair(up_s[i])],
         down |-> [i \in 1..Len(down_s) |-> pair(down_s[i])]]

\* calculate_fhi / validate_financial_inputs applied to a profile record.
Score(p) ==
    calculate_fhi(p.age, p.monthly_income, p.monthly_expenses, p.monthly_savings,
                  p.monthly_debt, p.total_investments, p.net_worth, p.emergency_fund)

Validate(p) ==
    validate_financial_inputs(p.monthly_income, p.monthly_expenses, p.monthly_debt,
                              p.monthly_savings)

(***************************************************************************)
(* Function-level specification: a profile is drawn from bounded sets and  *)
(* the validator and the scorer are applied to it.                         *)
(***************************************************************************)
Ages        == {18, 29, 30, 39, 40, 49, 50, 100}
Incomes     == {1000 * k : k \in 0..MaxUnits}
Expenses    == {1000 * k : k \in 0..MaxUnits}
Savings     == {0, 100} \cup {1000 * k : k \in 1..MaxUnits}
Debts       == {1000 * k : k \in 0..MaxUnits}
Investments == {20000 * k : k \in 0..MaxUnits}
NetWorths   == {20000 * k : k \in 0..MaxUnits}
EFunds      == {4000 * k : k \in 0..MaxUnits}

Profiles ==
    [age : Ages, monthly_income : Incomes, monthly_expenses : Expenses,
     monthly_savings : Savings, monthly_debt : Debts,
     total_investments : Investments, net_worth : NetWorths,
     emergency_fund : EFunds]

\* The number_input widgets before any edit: age 25, every amount 0.0.
DefaultForm ==
    [age |-> 25, monthly_income |-> 0, monthly_expenses |-> 0,
     monthly_savings |-> 0, monthly_debt |-> 0, total_investments |-> 0,
     net_worth |-> 0, emergency_fund |-> 0]

NoSliders ==
    [income_pct |-> 0, expenses_pct |-> 0, savings_pct |-> 0, debt_pct |-> 0,
     invest_pct |-> 0, efund_pct |-> 0]

\* No preset clicked, every slider at 0, no absolute delta.
NoDelta ==
    [preset |-> "none",
     values |-> [income_pct |-> 0, expenses_pct |-> 0, savings_pct |-> 0,
                 debt_pct |-> 0, invest_pct |-> 0, efund_pct |-> 0,
                 debt_abs_delta |-> 0, savings_abs_delta |-> 0]]

AppInit ==
    /\ form = DefaultForm
    /\ consent_ready = FALSE
    /\ consent_processing = FALSE
    /\ consent_snapshot = NoValue
    /\ FHI = NoValue
    /\ components = NoValue
    /\ inputs_for_pdf = NoValue
    /\ show_results = FALSE
    /\ delta = NoDelta
    /\ sandbox = NoValue
    /\ messages = <<>>
    /\ run_outcome = "none"
    /\ scorer_calls = <<>>

\* The regression profile of the specification's end-to-end example.
Fixture ==
    [age |-> 24, monthly_income |-> 50000, monthly_expenses |-> 30000,
     monthly_savings |-> 10000, monthly_debt |-> 5000,
     total_investments |-> 100000, net_worth |-> 200000,
     emergency_fund |-> 60000]

\* Profiles whose age lies outside the widget's range 18..100.
OutOfDomainAges == {17, 101}
OutOfDomainProfiles == {[Fixture EXCEPT !.age = a] : a \in OutOfDomainAges}

WhatIfIdle == scenario_delta = NoValue /\ scenario = NoValue

PeersIdle == peer_report = NoValue

StorageIdle ==
    /\ consent_storage = FALSE
    /\ analytics_opt_in = FALSE
    /\ auth_method = "guest"
    /\ sheet_writes = {}
    /\ storage_ops = {}

Sessions == {"s1", "s2"}

UsersIdle ==
    /\ users_rows = <<>>
    /\ upsert_pc = [s \in Sessions |-> "idle"]
    /\ upsert_view = [s \in Sessions |-> NoValue]

BackoffIdle ==
    /\ backoff_tries = 0
    /\ backoff_i = 0
    /\ backoff_pc = "done"
    /\ backoff_log = <<>>
    /\ backoff_outcome = NoValue

ChatIdle ==
    /\ retention_mode = "session"
    /\ chat_history = <<>>
    /\ chat_count = 0

\* The variables of the other function-level specifications, at rest.
XIdle == PeersIdle /\ StorageIdle /\ UsersIdle /\ BackoffIdle /\ ChatIdle

MoversIdle ==
    /\ old_components = NoValue
    /\ new_components = NoValue
    /\ top_k = 0
    /\ movers = NoValue

ScoreInit ==
    /\ profile \in Profiles \cup {Fixture} \cup OutOfDomainProfiles
    /\ validation = NoValue
    /\ result = NoValue
    /\ explained = NoValue
    /\ WhatIfIdle
    /\ MoversIdle
    /\ AppInit
    /\ XIdle

CallValidate ==
    /\ validation = NoValue
    /\ validation' = Validate(profile)
    /\ UNCHANGED <<profile, result, explained>>
    /\ UNCHANGED <<wvars, mvars, avars, xvars>>

CallCalculate ==
    /\ result = NoValue
    /\ result' = Score(profile)
    /\ UNCHANGED <<profile, validation, explained>>
    /\ UNCHANGED <<wvars, mvars, avars, xvars>>

\* explain_fhi applied to the components calculate_fhi returned.
CallExplain ==
    /\ result # NoValue
    /\ explained = NoValue
    /\ explained' = explain_fhi(result.components)
    /\ UNCHANGED <<profile, validation, result>>
    /\ UNCHANGED <<wvars, mvars, avars, xvars>>

ScoreNext == CallValidate \/ CallCalculate \/ CallExplain

SpecScore == ScoreInit /\ [][ScoreNext]_vars

(***************************************************************************)
(* CONSENT, PRIVACY & STORAGE HELPERS                                      *)
(***************************************************************************)

\* init_privacy_state: once preferences were saved, consent_processing is
\* force-restored from the snapshot at the start of every script run.
init_privacy_state(cp) ==
    IF consent_ready /\ consent_snapshot # NoValue
    THEN consent_snapshot.consent_processing
    ELSE cp

\* st.session_state["consent_processing"] as read by code that runs after
\* require_consent_gate in a script run.
session_consent_processing == init_privacy_state(consent_processing)

\* consent_required_or_stop: TRUE when the run is stopped.
consent_required_or_stop(cp) == ~cp

(***************************************************************************)
(* Results flow                                                            *)
(***************************************************************************)
Args(age, monthly_income, monthly_expenses, monthly_savings, monthly_debt, total_investments, net_worth, emergency_fund) ==
    [age |-> age, monthly_income |-> monthly_income,
     monthly_expenses |-> monthly_expenses, monthly_savings |-> monthly_savings,
     monthly_debt |-> monthly_debt, total_investments |-> total_investments,
     net_worth |-> net_worth, emergency_fund |-> emergency_fund]

\* A run of handle_calculation_click that ends in st.stop().
Stopped(how, msgs) ==
    [stopped |-> TRUE, outcome |-> how, messages |-> msgs, calls |-> <<>>,
     FHI |-> FHI, components |-> components, inputs_for_pdf |-> inputs_for_pdf,
     show_results |-> show_results]

\* handle_calculation_click without the call of consent_required_or_stop.
handle_calculation_click_noconsent(age, monthly_income, monthly_expenses, monthly_savings, monthly_debt, total_investments, net_worth, emergency_fund) ==
    LET v == validate_financial_inputs(monthly_income, monthly_expenses,
                                       monthly_debt, monthly_savings)
        r == calculate_fhi(age, monthly_income, monthly_expenses, monthly_savings,
                           monthly_debt, total_investments, net_worth,
                           emergency_fund)
        a == Args(age, monthly_income, monthly_expenses, monthly_savings,
                  monthly_debt, total_investments, net_worth, emergency_fund)
    IN  IF v.errors # <<>>
        THEN Stopped("stop_errors", v.errors \o <<"review_inputs">>)
        ELSE IF monthly_income = 0 \/ monthly_expenses = 0
        THEN Stopped("stop_degenerate", <<"input_income_and_expenses">>)
        ELSE [stopped |-> FALSE, outcome |-> "calculated",
              messages |-> v.warnings, calls |-> <<a>>,
              FHI |-> Round2(r.FHI), components |-> r.components,
              inputs_for_pdf |-> a, show_results |-> TRUE]

\* handle_calculation_click that also stops when the validator warns.
handle_calculation_click_strict(age, monthly_income, monthly_expenses, monthly_savings, monthly_debt, total_investments, net_worth, emergency_fund) ==
    LET v == validate_financial_inputs(monthly_income, monthly_expenses,
                                       monthly_debt, monthly_savings)
        r == calculate_fhi(age, monthly_income, monthly_expenses, monthly_savings,
                           monthly_debt, total_investments, net_worth,
                           emergency_fund)
        a == Args(age, monthly_income, monthly_expenses, monthly_savings,
                  monthly_debt, total_investments, net_worth, emergency_fund)
    IN  IF consent_required_or_stop(session_consent_processing)
        THEN Stopped("stop_consent", <<"allow_processing">>)
        ELSE IF v.errors # <<>> \/ v.warnings # <<>>
        THEN Stopped("stop_errors", v.errors \o v.warnings \o <<"review_inputs">>)
        ELSE IF monthly_income = 0 \/ monthly_expenses = 0
        THEN Stopped("stop_degenerate", <<"input_income_and_expenses">>)
        ELSE [stopped |-> FALSE, outcome |-> "calculated",
              messages |-> v.warnings, calls |-> <<a>>,
              FHI |-> Round2(r.FHI), components |-> r.components,
              inputs_for_pdf |-> a, show_results |-> TRUE]

handle_calculation_click(age, monthly_income, monthly_expenses, monthly_savings, monthly_debt, total_investments, net_worth, emergency_fund) ==
    LET v == validate_financial_inputs(monthly_income, monthly_expenses,
                                       monthly_debt, monthly_savings)
        r == calculate_fhi(age, monthly_income, monthly_expenses, monthly_savings,
                           monthly_debt, total_investments, net_worth,
                           emergency_fund)
        a == Args(age, monthly_income, monthly_expenses, monthly_savings,
                  monthly_debt, total_investments, net_worth, emergency_fund)
    IN  IF consent_required_or_stop(session_consent_processing)
        THEN Stopped("stop_consent", <<"allow_processing">>)
        ELSE IF v.errors # <<>>
        THEN Stopped("stop_errors", v.errors \o <<"review_inputs">>)
        ELSE IF monthly_income = 0 \/ monthly_expenses = 0
        THEN Stopped("stop_degenerate", <<"input_income_and_expenses">>)
        ELSE [stopped |-> FALSE, outcome |-> "calculated",
              messages |-> v.warnings, calls |-> <<a>>,
              FHI |-> Round2(r.FHI), components |-> r.components,
              inputs_for_pdf |-> a, show_results |-> TRUE]

(***************************************************************************)
(* WHAT-IF SANDBOX (module level)                                          *)
(***************************************************************************)
Max0(x) == IF x < 0 THEN 0 ELSE x

\* base * (pct/100): the factor without the "1 +".
Pct_plain(base, pct) == (base * pct) \div 100

\* base * (1 + pct/100); the amounts of the model are multiples of 100, so
\* the product is a whole number of pesos.
Pct(base, pct) == (base * (100 + pct)) \div 100

\* The quick-scenario buttons; a key a preset does not carry is absent.
Presets ==
    [job_loss    |-> [income_pct |-> -100, expenses_pct |-> 0, savings_pct |-> -100,
                      debt_pct |-> 0, invest_pct |-> 0, efund_pct |-> 0],
     salary_raise |-> [income_pct |-> 10, expenses_pct |-> 0, savings_pct |-> 0,
                       debt_pct |-> 0, invest_pct |-> 0, efund_pct |-> 0],
     debt_payment |-> [income_pct |-> 0, expenses_pct |-> 0, savings_pct |-> 0,
                       debt_abs_delta |-> -3000, invest_pct |-> 0, efund_pct |-> 0],
     start_mp2    |-> [income_pct |-> 0, expenses_pct |-> 0,
                       savings_abs_delta |-> 1000, debt_pct |-> 0, invest_pct |-> 0,
                       efund_pct |-> 0]]

PresetNames == {"job_loss", "salary_raise", "debt_payment", "start_mp2"}

PctKeys == {"income_pct", "expenses_pct", "savings_pct", "debt_pct", "invest_pct",
            "efund_pct"}

\* Value of one slider in a run: the preset's value when the clicked preset
\* carries the key with a non-default value, else the slider's own value.
SliderValue(preset, key, own) ==
    IF preset \in PresetNames /\ key \in DOMAIN Presets[preset]
       /\ Presets[preset][key] # 0
    THEN Presets[preset][key]
    ELSE own

\* preset.get(key, 0) if preset else 0
AbsDelta(preset, key) ==
    IF preset \in PresetNames /\ key \in DOMAIN Presets[preset]
    THEN Presets[preset][key]
    ELSE 0

\* Sliders and absolute deltas of a run, from the sliders' own values.
RunDelta(preset, own) ==
    [k \in PctKeys \cup {"debt_abs_delta", "savings_abs_delta"} |->
        IF k \in PctKeys THEN SliderValue(preset, k, own[k])
        ELSE AbsDelta(preset, k)]

\* apply_scenario without the floor at zero on the debt payment.
apply_scenario_nofloor(b, d) ==
    [age               |-> b.age,
     monthly_income    |-> Max0(Pct(b.monthly_income, d.income_pct)),
     monthly_expenses  |-> Max0(Pct(b.monthly_expenses, d.expenses_pct)),
     monthly_savings   |-> Max0(Pct(b.monthly_savings, d.savings_pct)
                                + d.savings_abs_delta),
     monthly_debt      |-> Pct(b.monthly_debt, d.debt_pct) + d.debt_abs_delta,
     total_investments |-> Max0(Pct(b.total_investments, d.invest_pct)),
     net_worth         |-> b.net_worth,
     emergency_fund    |-> Max0(Pct(b.emergency_fund, d.efund_pct))]

\* apply_scenario that adds the absolute delta before applying the percentage.
apply_scenario_abs_first(b, d) ==
    [age               |-> b.age,
     monthly_income    |-> Max0(Pct(b.monthly_income, d.income_pct)),
     monthly_expenses  |-> Max0(Pct(b.monthly_expenses, d.expenses_pct)),
     monthly_savings   |-> Max0(Pct(b.monthly_savings + d.savings_abs_delta,
                                    d.savings_pct)),
     monthly_debt      |-> Max0(Pct(b.monthly_debt + d.debt_abs_delta, d.debt_pct)),
     total_investments |-> Max0(Pct(b.total_investments, d.invest_pct)),
     net_worth         |-> b.net_worth,
     emergency_fund    |-> Max0(Pct(b.emergency_fund, d.efund_pct))]

\* apply_scenario that lets net worth follow the investments percentage.
apply_scenario_networth(b, d) ==
    [age               |-> b.age,
     monthly_income    |-> Max0(Pct(b.monthly_income, d.income_pct)),
     monthly_expenses  |-> Max0(Pct(b.monthly_expenses, d.expenses_pct)),
     monthly_savings   |-> Max0(Pct(b.monthly_savings, d.savings_pct)
                                + d.savings_abs_delta),
     monthly_debt      |-> Max0(Pct(b.monthly_debt, d.debt_pct) + d.debt_abs_delta),
     total_investments |-> Max0(Pct(b.total_investments, d.invest_pct)),
     net_worth         |-> Max0(Pct(b.net_worth, d.invest_pct)),
     emergency_fund    |-> Max0(Pct(b.emergency_fund, d.efund_pct))]

\* scen[...] = max(0.0, base_inputs[...] * (1 + pct/100) [+ abs delta])
apply_scenario(b, d) ==
    [age               |-> b.age,
     monthly_income    |-> Max0(Pct(b.monthly_income, d.income_pct)),
     monthly_expenses  |-> Max0(Pct(b.monthly_expenses, d.expenses_pct)),
     monthly_savings   |-> Max0(Pct(b.monthly_savings, d.savings_pct)
                                + d.savings_abs_delta),
     monthly_debt      |-> Max0(Pct(b.monthly_debt, d.debt_pct) + d.debt_abs_delta),
     total_investments |-> Max0(Pct(b.total_investments, d.invest_pct)),
     net_worth         |-> b.net_worth,
     emergency_fund    |-> Max0(Pct(b.emergency_fund, d.efund_pct))]

FromInputs(p) ==
    compute_fhi_from_inputs(p.age, p.monthly_income, p.monthly_expenses,
                            p.monthly_savings, p.monthly_debt, p.total_investments,
                            p.net_worth, p.emergency_fund)

\* The sandbox block of one script run: baseline and scenario are both scored.
what_if_sandbox(base_inputs, d) ==
    LET scen == apply_scenario(base_inputs, d)
        b    == FromInputs(base_inputs)
        n    == FromInputs(scen)
    IN  [scen |-> scen, base_fhi |-> b.FHI, base_comp |-> b.components,
         new_fhi |-> n.FHI, new_comp |-> n.components,
         calls |-> <<base_inputs, scen>>]

(***************************************************************************)
(* PERSONA PRESETS                                                         *)
(***************************************************************************)
get_persona_presets ==
    {[age |-> 24, monthly_income |-> 32000, monthly_expenses |-> 21000,
      monthly_savings |-> 3000, monthly_debt |-> 2500,
      total_investments |-> 5000, net_worth |-> 20000,
      emergency_fund |-> 10000],
     [age |-> 31, monthly_income |-> 60000, monthly_expenses |-> 45000,
      monthly_savings |-> 5000, monthly_debt |-> 7000,
      total_investments |-> 30000, net_worth |-> 150000,
      emergency_fund |-> 40000],
     [age |-> 38, monthly_income |-> 90000, monthly_expenses |-> 65000,
      monthly_savings |-> 8000, monthly_debt |-> 12000,
      total_investments |-> 120000, net_worth |-> 450000,
      emergency_fund |-> 90000],
     [age |-> 52, monthly_income |-> 110000, monthly_expenses |-> 70000,
      monthly_savings |-> 15000, monthly_debt |-> 4000,
      total_investments |-> 800000, net_worth |-> 1800000,
      emergency_fund |-> 200000]}

(***************************************************************************)
(* Scenario specification: a baseline and a set of deltas are drawn from   *)
(* bounded sets and the sandbox's scenario derivation is applied.          *)
(***************************************************************************)
Baselines == get_persona_presets \cup {DefaultForm, Fixture}

PctValues        == {-150, -100, 0, 30}
DebtAbsValues    == {-1000000, -3000, 0}
SavingsAbsValues == {0, 1000}

Deltas ==
    [income_pct : PctValues, expenses_pct : PctValues, savings_pct : PctValues,
     debt_pct : PctValues, invest_pct : PctValues, efund_pct : PctValues,
     debt_abs_delta : DebtAbsValues, savings_abs_delta : SavingsAbsValues]

WhatIfInit ==
    /\ profile \in Baselines
    /\ scenario_delta \in Deltas
    /\ scenario = NoValue
    /\ validation = NoValue
    /\ result = NoValue
    /\ explained = NoValue
    /\ MoversIdle
    /\ AppInit
    /\ XIdle

\* The "Apply scenario deltas" block of the sandbox.
ApplyScenario ==
    /\ scenario = NoValue
    /\ scenario' = apply_scenario(profile, scenario_delta)
    /\ UNCHANGED <<profile, validation, result, explained, scenario_delta>>
    /\ UNCHANGED <<mvars, avars, xvars>>

WhatIfNext == ApplyScenario

SpecWhatIf == WhatIfInit /\ [][WhatIfNext]_vars

(***************************************************************************)
(* Top-movers specification: two component tables and k are drawn from     *)
(* bounded sets and top_component_changes is applied.                      *)
(***************************************************************************)
OldScores == {R(20), R(40)}
NewScores == {R(20), [n |-> 501, d |-> 25], R(45)}
TopKs     == {1, 2, 5}

\* The worked example of the specification.
ExampleOld ==
    [c \in ComponentNames |->
        CASE c = "Net Worth"      -> R(40)
          [] c = "Debt-to-Income" -> R(60)
          [] c = "Savings Rate"   -> R(50)
          [] c = "Investment"     -> R(30)
          [] c = "Emergency Fund" -> R(20)]

ExampleNew ==
    [c \in ComponentNames |->
        CASE c = "Net Worth"      -> R(45)
          [] c = "Debt-to-Income" -> R(55)
          [] c = "Savings Rate"   -> R(50)
          [] c = "Investment"     -> R(20)
          [] c = "Emergency Fund" -> R(40)]

MoversInit ==
    /\ \/ /\ old_components \in [ComponentNames -> OldScores]
          /\ new_components \in [ComponentNames -> NewScores]
       \/ /\ old_components = ExampleOld
          /\ new_components = ExampleNew
    /\ top_k \in TopKs
    /\ movers = NoValue
    /\ profile = DefaultForm
    /\ validation = NoValue
    /\ result = NoValue
    /\ explained = NoValue
    /\ WhatIfIdle
    /\ AppInit
    /\ XIdle

\* movers_up, movers_down = top_component_changes(base_components, new_components, k)
CallTopChanges ==
    /\ movers = NoValue
    /\ movers' = top_component_changes(old_components, new_components, top_k)
    /\ UNCHANGED <<old_components, new_components, top_k>>
    /\ UNCHANGED <<profile, validation, result, explained, wvars, avars, xvars>>

MoversNext == CallTopChanges

SpecMovers == MoversInit /\ [][MoversNext]_vars

(***************************************************************************)
(* Peer benchmark of render_results_and_report_ui, and the specification   *)
(* that renders it for stored results of profiles of every age.            *)
(***************************************************************************)
peer_averages ==
    [g \in {"18-25", "26-35", "36-50", "50+"} |->
        CASE g = "18-25" -> [FHI |-> 45, SavingsRate |-> 15, EmergencyFund |-> 35]
          [] g = "26-35" -> [FHI |-> 55, SavingsRate |-> 18, EmergencyFund |-> 55]
          [] g = "36-50" -> [FHI |-> 65, SavingsRate |-> 22, EmergencyFund |-> 70]
          [] g = "50+"   -> [FHI |-> 75, SavingsRate |-> 25, EmergencyFund |-> 85]]

\* age_group with the boundaries one year early (age < 25, < 35, < 50).
age_group_early(age) ==
    IF age < 25 THEN "18-25"
    ELSE IF age < 35 THEN "26-35"
    ELSE IF age < 50 THEN "36-50"
    ELSE "50+"

age_group(age) ==
    IF age < 26 THEN "18-25"
    ELSE IF age < 36 THEN "26-35"
    ELSE IF age < 51 THEN "36-50"
    ELSE "50+"

\* f"{x:+.0f}": the number shown is x rounded to a whole number.
FormatSigned0(x) == Round0(x)

\* The three st.metric deltas "... vs peers".
peer_benchmark(age, FHI_rounded, comps) ==
    LET peer_data == peer_averages[age_group(age)]
    IN  [age_group     |-> age_group(age),
         FHI           |-> FormatSigned0(RSub(FHI_rounded, R(peer_data.FHI))),
         SavingsRate   |-> FormatSigned0(RSub(comps["Savings Rate"],
                                              R(peer_data.SavingsRate))),
         EmergencyFund |-> FormatSigned0(RSub(comps["Emergency Fund"],
                                              R(peer_data.EmergencyFund)))]

PeerAges == 18..100

PeerProfiles ==
    {[p EXCEPT !.age = a] : p \in get_persona_presets \cup {Fixture}, a \in PeerAges}

\* The session right after a calculation stored its results.
PeersInit ==
    /\ \E p \in PeerProfiles :
          /\ form = p
          /\ inputs_for_pdf = p
          /\ FHI = Round2(Score(p).FHI)
          /\ components = Score(p).components
          /\ scorer_calls = <<p>>
    /\ show_results = TRUE
    /\ consent_ready = TRUE
    /\ consent_processing = TRUE
    /\ consent_snapshot = [consent_processing |-> TRUE]
    /\ delta = NoDelta
    /\ sandbox = NoValue
    /\ messages = <<>>
    /\ run_outcome = "calculated"
    /\ peer_report = NoValue
    /\ StorageIdle
    /\ UsersIdle
    /\ BackoffIdle
    /\ ChatIdle
    /\ profile = DefaultForm
    /\ validation = NoValue
    /\ result = NoValue
    /\ explained = NoValue
    /\ WhatIfIdle
    /\ MoversIdle

\* The "peer metrics" block of render_results_and_report_ui.
RenderPeers ==
    /\ peer_report = NoValue
    /\ show_results
    /\ peer_report' = peer_benchmark(inputs_for_pdf.age, FHI, components)
    /\ UNCHANGED <<profile, validation, result, explained, wvars, mvars, avars>>
    /\ UNCHANGED <<svars, uvars, bvars, cvars>>

PeersNext == RenderPeers

SpecPeers == PeersInit /\ [][PeersNext]_vars

(***************************************************************************)
(* Click-handler specification: handle_calculation_click is called once in *)
(* a session whose processing flag and stored results are drawn from       *)
(* bounded sets.                                                           *)
(***************************************************************************)
ClickForms ==
    {[DefaultForm EXCEPT !.monthly_income = i, !.monthly_expenses = e,
                         !.monthly_debt = d, !.monthly_savings = sv,
                         !.emergency_fund = ef] :
        i \in {0, 20000, 25000}, e \in {0, 10000, 30000}, d \in {0, 25000},
        sv \in {0, 10000}, ef \in {0, 60000}}

\* What an earlier calculation left in the session, or nothing.
StoredResults ==
    {[FHI |-> NoValue, components |-> NoValue, inputs_for_pdf |-> NoValue,
      show_results |-> FALSE],
     [FHI |-> Round2(Score(Fixture).FHI), components |-> Score(Fixture).components,
      inputs_for_pdf |-> Fixture, show_results |-> TRUE]}

ClickInit ==
    /\ form \in ClickForms
    /\ consent_processing \in BOOLEAN
    /\ consent_ready = FALSE
    /\ consent_snapshot = NoValue
    /\ \E st \in StoredResults :
          /\ FHI = st.FHI
          /\ components = st.components
          /\ inputs_for_pdf = st.inputs_for_pdf
          /\ show_results = st.show_results
    /\ delta = NoDelta
    /\ sandbox = NoValue
    /\ messages = <<>>
    /\ run_outcome = "none"
    /\ scorer_calls = <<>>
    /\ XIdle
    /\ profile = DefaultForm
    /\ validation = NoValue
    /\ result = NoValue
    /\ explained = NoValue
    /\ WhatIfIdle
    /\ MoversIdle

\* One call of handle_calculation_click with the widgets' values.
CallClickHandler ==
    \E h \in {handle_calculation_click(form.age, form.monthly_income,
                 form.monthly_expenses, form.monthly_savings, form.monthly_debt,
                 form.total_investments, form.net_worth, form.emergency_fund)} :
        /\ run_outcome = "none"
        /\ FHI' = h.FHI
        /\ components' = h.components
        /\ inputs_for_pdf' = h.inputs_for_pdf
        /\ show_results' = h.show_results
        /\ messages' = h.messages
        /\ run_outcome' = h.outcome
        /\ scorer_calls' = h.calls
        /\ UNCHANGED <<form, consent_ready, consent_processing, consent_snapshot,
                       delta, sandbox>>
        /\ UNCHANGED fvars

ClickNext == CallClickHandler

SpecClick == ClickInit /\ [][ClickNext]_vars

(***************************************************************************)
(* Google Sheets logging.  A row is recorded as the sheet it goes to and   *)
(* the kind of data it holds; sheets_up = FALSE stands for a Sheets API    *)
(* call that raises (each writer catches the exception and warns).         *)
(***************************************************************************)
Row(sheet, holds) == [sheet |-> sheet, holds |-> holds]

worksheet_for(method) ==
    CASE method = "google" -> "Log_Google"
      [] method = "email"  -> "Log_Email"
      [] method = "guest"  -> "Log_Guests"
      [] OTHER             -> "Log_Others"

append_calc_log(storage, sheets_up) ==
    IF ~storage THEN {}
    ELSE IF sheets_up THEN {Row("FHI_Calcs", "inputs and FHI")} ELSE {}

append_chat_event(storage, analytics, sheets_up) ==
    IF ~(storage /\ analytics) THEN {}
    ELSE IF sheets_up THEN {Row("Chat_Events", "chat metadata")} ELSE {}

\* append_whatif_run without the consent_storage test.
append_whatif_run_unguarded(storage, sheets_up) ==
    IF sheets_up THEN {Row("WhatIf_Runs", "scenario run")} ELSE {}

append_whatif_run(storage, sheets_up) ==
    IF ~storage THEN {}
    ELSE IF sheets_up THEN {Row("WhatIf_Runs", "scenario run")} ELSE {}

\* The two "Optional:" blocks at the end of handle_calculation_click: the
\* profile autosave of an email user and the per-auth log row.
calculation_logging(method, storage, sheets_up) ==
    (IF method = "email"
     THEN IF storage
          THEN IF sheets_up
               THEN {Row("Users", "inputs and FHI"),
                     Row("Auth_Events", "profile_autosaved")}
               ELSE {}
          ELSE {}
     ELSE {})
    \cup
    (IF storage
     THEN IF sheets_up THEN {Row(worksheet_for(method), "inputs and FHI")} ELSE {}
     ELSE {})

(***************************************************************************)
(* Storage specification: the logging operations run in any order in a     *)
(* session whose consent flags and sign-in method are drawn at the start.  *)
(***************************************************************************)
AuthMethods == {"guest", "email", "google"}

StorageInit ==
    /\ consent_storage \in BOOLEAN
    /\ analytics_opt_in \in BOOLEAN
    /\ auth_method \in AuthMethods
    /\ sheet_writes = {}
    /\ storage_ops = {}
    /\ PeersIdle
    /\ UsersIdle
    /\ BackoffIdle
    /\ ChatIdle
    /\ AppInit
    /\ profile = DefaultForm
    /\ validation = NoValue
    /\ result = NoValue
    /\ explained = NoValue
    /\ WhatIfIdle
    /\ MoversIdle

StorageFrame ==
    /\ UNCHANGED <<consent_storage, analytics_opt_in, auth_method>>
    /\ UNCHANGED <<profile, validation, result, explained, wvars, mvars, avars,
                   pvars, uvars, bvars, cvars>>

\* A calculation that reached the end of handle_calculation_click.
LogCalculation(sheets_up) ==
    /\ sheet_writes' = sheet_writes
                          \cup calculation_logging(auth_method, consent_storage,
                                                   sheets_up)
    /\ storage_ops' = storage_ops \cup {"calculation"}
    /\ StorageFrame

\* "Save this scenario to Google Sheet" clicked in the sandbox.
SaveScenario(sheets_up) ==
    /\ sheet_writes' = sheet_writes \cup append_whatif_run(consent_storage, sheets_up)
    /\ storage_ops' = storage_ops \cup {"whatif"}
    /\ StorageFrame

\* A chat question submitted in render_floating_chat.
LogChat(sheets_up) ==
    /\ sheet_writes' = sheet_writes
                          \cup append_chat_event(consent_storage, analytics_opt_in,
                                                 sheets_up)
    /\ storage_ops' = storage_ops \cup {"chat"}
    /\ StorageFrame

\* append_calc_log called with the results of a calculation.
LogCalcDetail(sheets_up) ==
    /\ sheet_writes' = sheet_writes \cup append_calc_log(consent_storage, sheets_up)
    /\ storage_ops' = storage_ops \cup {"calc_log"}
    /\ StorageFrame

StorageNext ==
    \E sheets_up \in BOOLEAN :
        \/ LogCalculation(sheets_up)
        \/ SaveScenario(sheets_up)
        \/ LogChat(sheets_up)
        \/ LogCalcDetail(sheets_up)

SpecStorage == StorageInit /\ [][StorageNext]_vars

(***************************************************************************)
(* Users sheet specification: two sessions run upsert_user_row; the read   *)
(* (get_all_values) and the write (update_cell / append_row) are separate  *)
(* Sheets API calls and may interleave between sessions.                   *)
(***************************************************************************)
UserIds == {"u1", "u2"}
MaxRows == 4

\* found_row_idx: position of the first data row whose user_id is uid, 0 if none.
found_row_idx(rows, uid) ==
    IF \E i \in 1..Len(rows) : rows[i].user_id = uid
    THEN CHOOSE i \in 1..Len(rows) :
            /\ rows[i].user_id = uid
            /\ \A j \in 1..(i - 1) : rows[j].user_id # uid
    ELSE 0

UsersInit ==
    /\ users_rows \in {<<>>, <<[user_id |-> "u1", last_login |-> "earlier"]>>}
    /\ upsert_pc = [s \in Sessions |-> "idle"]
    /\ upsert_view = [s \in Sessions |-> NoValue]
    /\ PeersIdle
    /\ StorageIdle
    /\ BackoffIdle
    /\ ChatIdle
    /\ AppInit
    /\ profile = DefaultForm
    /\ validation = NoValue
    /\ result = NoValue
    /\ explained = NoValue
    /\ WhatIfIdle
    /\ MoversIdle

UsersFrame ==
    UNCHANGED <<profile, validation, result, explained, wvars, mvars, avars,
                pvars, svars, bvars, cvars>>

\* values = ws.get_all_values() and the search for the user's row.
UpsertRead(s, uid) ==
    /\ upsert_pc[s] = "idle"
    /\ Len(users_rows) < MaxRows
    /\ upsert_pc' = [upsert_pc EXCEPT ![s] = "read"]
    /\ upsert_view' = [upsert_view EXCEPT
                          ![s] = [user_id |-> uid,
                                  found |-> found_row_idx(users_rows, uid)]]
    /\ UNCHANGED users_rows
    /\ UsersFrame

\* ws.update_cell(found_row_idx, ...) for a row that was found, else
\* ws.append_row(row).
UpsertWrite(s) ==
    /\ upsert_pc[s] = "read"
    /\ users_rows' =
          IF upsert_view[s].found # 0
          THEN [users_rows EXCEPT ![upsert_view[s].found].last_login = s]
          ELSE Append(users_rows,
                      [user_id |-> upsert_view[s].user_id, last_login |-> s])
    /\ upsert_pc' = [upsert_pc EXCEPT ![s] = "idle"]
    /\ upsert_view' = [upsert_view EXCEPT ![s] = NoValue]
    /\ UsersFrame

\* The Sheets call raises; upsert_user_row warns and writes nothing.
UpsertFails(s) ==
    /\ upsert_pc[s] = "read"
    /\ upsert_pc' = [upsert_pc EXCEPT ![s] = "idle"]
    /\ upsert_view' = [upsert_view EXCEPT ![s] = NoValue]
    /\ UNCHANGED users_rows
    /\ UsersFrame

UsersNext ==
    \E s \in Sessions :
        \/ \E uid \in UserIds : UpsertRead(s, uid)
        \/ UpsertWrite(s)
        \/ UpsertFails(s)

SpecUsers == UsersInit /\ [][UsersNext]_vars

(***************************************************************************)
(* with_backoff, one loop iteration per step, and the specification that   *)
(* runs it against a function whose calls succeed or raise at will.        *)
(***************************************************************************)
MaxTries == 4

Exceptions == {"APIError", "Timeout", "ConnectionError"}

\* What one invocation of fn() can do: return a value or raise.
FnResults ==
    {[ok |-> TRUE, value |-> "appended"]}
        \cup {[ok |-> FALSE, exc |-> e] : e \in Exceptions}

Returned(v) == [kind |-> "returned", value |-> v]
Raised(e)   == [kind |-> "raised", exc |-> e]

\* The loop body without the "if i == tries - 1: raise".
with_backoff_body_swallow(tries, i, res) ==
    IF res.ok THEN [pc |-> "done", outcome |-> Returned(res.value)]
    ELSE [pc |-> "sleep", outcome |-> NoValue]

\* try: return fn()  except Exception: if i == tries - 1: raise; time.sleep(...)
with_backoff_body(tries, i, res) ==
    IF res.ok THEN [pc |-> "done", outcome |-> Returned(res.value)]
    ELSE IF i = tries - 1 THEN [pc |-> "done", outcome |-> Raised(res.exc)]
    ELSE [pc |-> "sleep", outcome |-> NoValue]

\* After the sleep the for loop takes the next i, or falls off its end and
\* the function returns None.
with_backoff_next(tries, i) ==
    IF i + 1 < tries THEN [pc |-> "call", i |-> i + 1, outcome |-> NoValue]
    ELSE [pc |-> "done", i |-> i, outcome |-> Returned("None")]

BackoffInit ==
    /\ backoff_tries \in 1..MaxTries
    /\ backoff_i = 0
    /\ backoff_pc = "call"
    /\ backoff_log = <<>>
    /\ backoff_outcome = NoValue
    /\ PeersIdle
    /\ StorageIdle
    /\ UsersIdle
    /\ ChatIdle
    /\ AppInit
    /\ profile = DefaultForm
    /\ validation = NoValue
    /\ result = NoValue
    /\ explained = NoValue
    /\ WhatIfIdle
    /\ MoversIdle

BackoffFrame ==
    UNCHANGED <<profile, validation, result, explained, wvars, mvars, avars,
                pvars, svars, uvars, cvars>>

\* One pass through the try block: fn() is invoked and returns or raises.
BackoffAttempt(res) ==
    /\ backoff_pc = "call"
    /\ \E b \in {with_backoff_body(backoff_tries, backoff_i, res)} :
          /\ backoff_pc' = b.pc
          /\ backoff_outcome' = b.outcome
    /\ backoff_log' = Append(backoff_log, res)
    /\ UNCHANGED <<backoff_tries, backoff_i>>
    /\ BackoffFrame

\* time.sleep((2 ** i) + random.random()) ends and the loop goes on.
BackoffSleep ==
    /\ backoff_pc = "sleep"
    /\ \E n \in {with_backoff_next(backoff_tries, backoff_i)} :
          /\ backoff_pc' = n.pc
          /\ backoff_i' = n.i
          /\ backoff_outcome' = n.outcome
    /\ UNCHANGED <<backoff_tries, backoff_log>>
    /\ BackoffFrame

BackoffNext ==
    \/ \E res \in FnResults : BackoffAttempt(res)
    \/ BackoffSleep

SpecBackoff == BackoffInit /\ [][BackoffNext]_vars

(***************************************************************************)
(* Chat retention: prune_chat_history, and the specification in which      *)
(* questions are submitted one after the other in either retention mode.   *)
(* One submission appends one entry holding the question and the response. *)
(***************************************************************************)
MaxChats == 60

\* seq[-n:]
LastN(seq, n) ==
    IF Len(seq) <= n THEN seq ELSE SubSeq(seq, Len(seq) - n + 1, Len(seq))

prune_chat_history(mode, history) ==
    IF mode = "ephemeral" THEN LastN(history, 2) ELSE LastN(history, 50)

RetentionModes == {"session", "ephemeral"}

ChatInit ==
    /\ retention_mode \in RetentionModes
    /\ chat_history = <<>>
    /\ chat_count = 0
    /\ PeersIdle
    /\ StorageIdle
    /\ UsersIdle
    /\ BackoffIdle
    /\ AppInit
    /\ profile = DefaultForm
    /\ validation = NoValue
    /\ result = NoValue
    /\ explained = NoValue
    /\ WhatIfIdle
    /\ MoversIdle

\* "Send" in the chat form: the entry is appended, then the history pruned.
ChatSubmit ==
    /\ chat_count < MaxChats
    /\ chat_count' = chat_count + 1
    /\ chat_history' = prune_chat_history(retention_mode,
                                          Append(chat_history, chat_count + 1))
    /\ UNCHANGED retention_mode
    /\ UNCHANGED <<profile, validation, result, explained, wvars, mvars, avars,
                   pvars, svars, uvars, bvars>>

ChatNext == ChatSubmit

SpecChat == ChatInit /\ [][ChatNext]_vars

(***************************************************************************)
(* Application specification: one action per script run.                  *)
(***************************************************************************)
AppIncomes  == {0, 20000, 25000}
AppExpenses == {0, 10000, 30000}
AppDebts    == {0, 25000}
AppSavings  == {0, 10000}
AppEFunds   == {0, 60000}

FormDomain ==
    [monthly_income |-> AppIncomes, monthly_expenses |-> AppExpenses,
     monthly_debt |-> AppDebts, monthly_savings |-> AppSavings,
     emergency_fund |-> AppEFunds]

SliderSettings ==
    {NoSliders,
     [income_pct |-> -30, expenses_pct |-> 30, savings_pct |-> 30, debt_pct |-> 30,
      invest_pct |-> -30, efund_pct |-> -30]}

\* The sliders' own values at the start of a run: a slider the previous run's
\* preset had overridden is created afresh at 0, the others keep their value.
OwnSliders(d) ==
    [k \in PctKeys |->
        IF SliderValue(d.preset, k, d.values[k]) # d.values[k]
           \/ (d.preset \in PresetNames /\ k \in DOMAIN Presets[d.preset]
               /\ Presets[d.preset][k] # 0)
        THEN 0 ELSE d.values[k]]

\* SavePrivacyPreferences without the "You must allow processing" check.
SavePrivacyPreferences_unchecked(cp) ==
    LET now == init_privacy_state(cp)
    IN  /\ consent_processing' = now
        /\ consent_snapshot' = [consent_processing |-> now]
        /\ consent_ready' = TRUE
        /\ run_outcome' = "consent_saved"
        /\ form' = DefaultForm
        /\ delta' = NoDelta
        /\ sandbox' = NoValue
        /\ messages' = <<>>
        /\ scorer_calls' = <<>>
        /\ UNCHANGED <<FHI, components, inputs_for_pdf, show_results>>
        /\ UNCHANGED fvars

\* Privacy form submitted with the processing checkbox at cp (consent gate
\* or settings page): render_consent_card, then st.stop() or st.rerun().
SavePrivacyPreferences(cp) ==
    LET now == init_privacy_state(cp)
    IN  /\ consent_processing' = now
        /\ IF now
           THEN /\ consent_snapshot' = [consent_processing |-> now]
                /\ consent_ready' = TRUE
                /\ run_outcome' = "consent_saved"
           ELSE /\ UNCHANGED <<consent_snapshot, consent_ready>>
                /\ run_outcome' = "consent_error"
        /\ form' = DefaultForm
        /\ delta' = NoDelta
        /\ sandbox' = NoValue
        /\ messages' = <<>>
        /\ scorer_calls' = <<>>
        /\ UNCHANGED <<FHI, components, inputs_for_pdf, show_results>>
        /\ UNCHANGED fvars

\* A run that reaches the sandbox block with the deltas d.
RunSandbox(base_inputs, d, calls_before) ==
    \E sb \in {what_if_sandbox(base_inputs, d.values)} :
        /\ delta' = d
        /\ sandbox' = [scen |-> sb.scen, base_fhi |-> sb.base_fhi,
                       base_comp |-> sb.base_comp, new_fhi |-> sb.new_fhi,
                       new_comp |-> sb.new_comp]
        /\ scorer_calls' = calls_before \o sb.calls

\* The user edits one number_input; the script reruns without a click.
EditInput(field, value) ==
    /\ consent_ready
    /\ form[field] # value
    /\ form' = [form EXCEPT ![field] = value]
    /\ consent_processing' = session_consent_processing
    /\ RunSandbox(form', [preset |-> "none",
                          values |-> RunDelta("none", OwnSliders(delta))], <<>>)
    /\ messages' = <<>>
    /\ run_outcome' = "rendered"
    /\ UNCHANGED <<consent_ready, consent_snapshot, FHI, components,
                   inputs_for_pdf, show_results>>
    /\ UNCHANGED fvars

\* The user moves the What-If sliders; the script reruns without a click.
AdjustSliders(own) ==
    /\ consent_ready
    /\ consent_processing' = session_consent_processing
    /\ RunSandbox(form, [preset |-> "none", values |-> RunDelta("none", own)],
                  <<>>)
    /\ messages' = <<>>
    /\ run_outcome' = "rendered"
    /\ UNCHANGED <<form, consent_ready, consent_snapshot, FHI, components,
                   inputs_for_pdf, show_results>>
    /\ UNCHANGED fvars

\* The user clicks one of the four quick-scenario buttons.
ClickPreset(name) ==
    /\ consent_ready
    /\ consent_processing' = session_consent_processing
    /\ RunSandbox(form, [preset |-> name,
                         values |-> RunDelta(name, OwnSliders(delta))], <<>>)
    /\ messages' = <<>>
    /\ run_outcome' = "rendered"
    /\ UNCHANGED <<form, consent_ready, consent_snapshot, FHI, components,
                   inputs_for_pdf, show_results>>
    /\ UNCHANGED fvars

\* The user clicks "Check My Financial Health": handle_calculation_click and,
\* unless it stopped the run, the sandbox block after it.
ClickCalculate ==
    \E h \in {handle_calculation_click(form.age, form.monthly_income,
                 form.monthly_expenses, form.monthly_savings, form.monthly_debt,
                 form.total_investments, form.net_worth, form.emergency_fund)} :
        /\ consent_ready
        /\ consent_processing' = session_consent_processing
        /\ FHI' = h.FHI
        /\ components' = h.components
        /\ inputs_for_pdf' = h.inputs_for_pdf
        /\ show_results' = h.show_results
        /\ messages' = h.messages
        /\ run_outcome' = h.outcome
        /\ IF h.stopped
           THEN /\ delta' = NoDelta
                /\ sandbox' = NoValue
                /\ scorer_calls' = h.calls
           ELSE RunSandbox(form, [preset |-> "none",
                                  values |-> RunDelta("none", OwnSliders(delta))],
                           h.calls)
        /\ UNCHANGED <<form, consent_ready, consent_snapshot>>
        /\ UNCHANGED fvars

Init ==
    /\ AppInit
    /\ XIdle
    /\ profile = DefaultForm
    /\ validation = NoValue
    /\ result = NoValue
    /\ explained = NoValue
    /\ WhatIfIdle
    /\ MoversIdle

Next ==
    \/ \E cp \in BOOLEAN : SavePrivacyPreferences(cp)
    \/ \E field \in DOMAIN FormDomain : \E value \in FormDomain[field] :
           EditInput(field, value)
    \/ \E own \in SliderSettings : AdjustSliders(own)
    \/ \E name \in PresetNames : ClickPreset(name)
    \/ ClickCalculate

Spec == Init /\ [][Next]_vars

(***************************************************************************)
(* Properties                                                              *)
(***************************************************************************)
Comp(k) == result.components[k]

InRange(x, lo, hi) == ~IsErr(x) /\ RLe(R(lo), x) /\ RLe(x, R(hi))

\* C1: for every profile with age in 18..100 and non-negative amounts,
\* calculate_fhi returns each of the five component scores inside [0,100]
\* and a composite FHI inside [15,100].
C1_RangeInvariant ==
    result # NoValue =>
        /\ ~result.raised
        /\ \A k \in ComponentNames : InRange(Comp(k), 0, 100)
        /\ InRange(result.FHI, 15, 100)

\* Extreme inputs were scored: debt above a positive income, zero expenses
\* with a non-zero emergency fund, investments above the bracket's target.
C1_Witness ==
    /\ result # NoValue
    /\ profile.monthly_income > 0
    /\ profile.monthly_debt > profile.monthly_income
    /\ profile.monthly_expenses = 0
    /\ profile.emergency_fund > 0
    /\ profile.age < 30
    /\ profile.total_investments > 2 * 12 * profile.monthly_income
    /\ Comp("Investment") = R(100)
    /\ Comp("Debt-to-Income") = R(0)

\* C2: when monthly income is 0, the Debt-to-Income component returned by
\* calculate_fhi is 100 if and only if monthly debt is also 0, and is 0 for
\* every positive monthly debt.
C2_DtiAtZeroIncome ==
    (result # NoValue /\ profile.monthly_income = 0) =>
        /\ (Comp("Debt-to-Income") = R(100)) <=> (profile.monthly_debt = 0)
        /\ profile.monthly_debt > 0 => Comp("Debt-to-Income") = R(0)

\* C3: when monthly expenses are 0, the Emergency Fund component returned by
\* calculate_fhi is 100 if and only if the emergency fund is greater than 0,
\* and is 0 when the fund is 0.
C3_EmergAtZeroExpenses ==
    (result # NoValue /\ profile.monthly_expenses = 0) =>
        /\ (Comp("Emergency Fund") = R(100)) <=> (profile.emergency_fund > 0)
        /\ profile.emergency_fund = 0 => Comp("Emergency Fund") = R(0)

\* C4: when monthly income is 0, calculate_fhi raises no ZeroDivisionError
\* whatever the other fields are, and yields Net Worth = 0, Savings Rate = 0
\* and Investment = 0.
C4_ZeroIncomeDegrades ==
    (result # NoValue /\ profile.monthly_income = 0) =>
        /\ ~result.raised
        /\ Comp("Net Worth") = R(0)
        /\ Comp("Savings Rate") = R(0)
        /\ Comp("Investment") = R(0)

\* A zero-income profile whose numerators are all positive was scored.
C4_Witness ==
    /\ result # NoValue
    /\ profile.monthly_income = 0
    /\ profile.monthly_savings > 0
    /\ profile.monthly_debt > 0
    /\ profile.net_worth > 0
    /\ profile.total_investments > 0
    /\ profile.monthly_expenses > 0

\* C5: no script run invokes calculate_fhi (directly or through
\* compute_fhi_from_inputs) on inputs for which validate_financial_inputs
\* returns a non-empty error list.
C5_ScorersOnlyOnValidInputs ==
    \A i \in 1..Len(scorer_calls) : Validate(scorer_calls[i]).errors = <<>>

\* C6: validate_financial_inputs returns a non-empty errors list if and only
\* if monthly debt is strictly greater than monthly income; income 20000 with
\* debt 25000 yields a non-empty errors list.
C6_ErrorsIffDebtAboveIncome ==
    /\ validation # NoValue =>
          ((validation.errors # <<>>)
              <=> (profile.monthly_debt > profile.monthly_income))
    /\ validate_financial_inputs(20000, 0, 25000, 0).errors # <<>>

\* Debt equal to a positive income was validated without an error.
C6_Witness ==
    /\ validation # NoValue
    /\ profile.monthly_income > 0
    /\ profile.monthly_debt = profile.monthly_income
    /\ validation.errors = <<>>

\* C7: validate_financial_inputs returns a non-empty warnings list if and
\* only if expenses > income or savings + expenses + debt > 1.1 x income.
C7_WarningsIffOverSlack ==
    validation # NoValue =>
        ((validation.warnings # <<>>)
            <=> \/ profile.monthly_expenses > profile.monthly_income
                \/ 10 * (profile.monthly_savings + profile.monthly_expenses
                         + profile.monthly_debt) > 11 * profile.monthly_income)

\* Obligations of exactly 1.1 x income, above income, gave no warning.
C7_Witness ==
    /\ validation # NoValue
    /\ profile.monthly_income > 0
    /\ profile.monthly_expenses <= profile.monthly_income
    /\ 10 * (profile.monthly_savings + profile.monthly_expenses
             + profile.monthly_debt) = 11 * profile.monthly_income
    /\ validation.warnings = <<>>

ClickOutcomes == {"stop_consent", "stop_errors", "stop_degenerate", "calculated"}

\* C8: a scoring request (handle_calculation_click with processing consent)
\* for a profile with income 0 or expenses 0 and no validator error produces
\* a score result: FHI and components stored, in range.
C8_DegenerateInputIsScored ==
    (/\ run_outcome \in ClickOutcomes
     /\ consent_processing
     /\ form.monthly_income = 0 \/ form.monthly_expenses = 0
     /\ Validate(form).errors = <<>>)
    => /\ run_outcome = "calculated"
       /\ show_results
       /\ inputs_for_pdf = form
       /\ InRange(FHI, 15, 100)
       /\ \A k \in ComponentNames : InRange(components[k], 0, 100)

\* C9: whenever validate_financial_inputs returns no error and some warning
\* for inputs with positive income and expenses, handle_calculation_click
\* computes the FHI and stores FHI, components and show_results.
C9_WarningsDoNotBlock ==
    (/\ run_outcome \in ClickOutcomes
     /\ consent_processing
     /\ form.monthly_income > 0
     /\ form.monthly_expenses > 0
     /\ Validate(form).errors = <<>>
     /\ Validate(form).warnings # <<>>)
    => /\ run_outcome = "calculated"
       /\ show_results
       /\ FHI = Round2(Score(form).FHI)
       /\ components = Score(form).components
       /\ inputs_for_pdf = form
       /\ messages = Validate(form).warnings
       /\ scorer_calls[1] = form

\* A click on inputs that draw both warnings was computed and stored.
C9_Witness ==
    /\ run_outcome = "calculated"
    /\ form.monthly_income > 0
    /\ Len(Validate(form).warnings) = 2
    /\ Validate(form).errors = <<>>
    /\ show_results
    /\ inputs_for_pdf = form

RECURSIVE WeightedSum(_, _, _)
WeightedSum(c, w, i) ==
    IF i = 0 THEN R(0)
    ELSE RAdd(WeightedSum(c, w, i - 1),
              RMul(c[ComponentOrder[i]], w[ComponentOrder[i]]))

\* C10: the composite FHI returned by calculate_fhi equals the sum over the
\* five components of component score x its weight from
\* get_component_weights, plus the base offset "_base" of that table.
C10_CompositeMatchesWeightTable ==
    result # NoValue =>
        result.FHI = RAdd(WeightedSum(result.components, get_component_weights, 5),
                          get_component_weights["_base"])

\* A profile whose five components are all non-zero was scored.
C10_Witness ==
    /\ result # NoValue
    /\ \A k \in ComponentNames : RLt(R(0), Comp(k))
    /\ RLt(Comp("Net Worth"), R(100))

RAbs(x) == [n |-> Abs(x.n), d |-> x.d]

C13_WeightSum ==
    /\ SumValues(get_component_weights, 5) = [n |-> 17, d |-> 20]
    /\ get_component_weights["_base"] = R(15)
    /\ explained # NoValue => explained.base = R(15)

\* Validation, scoring and explanation have all run on a profile.
C13_Witness ==
    /\ validation # NoValue
    /\ result # NoValue
    /\ explained # NoValue

\* C20 as stated: the regression profile scores Debt-to-Income = 90, Savings
\* Rate = 20 and Emergency Fund = 100, with the composite equal to
\* 0.20 NW + 0.15 DTI + 0.15 SR + 0.15 INV + 0.20 EF + 15.
C20_FixtureAsStated ==
    (profile = Fixture /\ result # NoValue) =>
        /\ Comp("Debt-to-Income") = R(90)
        /\ Comp("Savings Rate") = R(20)
        /\ Comp("Emergency Fund") = R(100)
        /\ result.FHI = RAdd(WeightedSum(result.components,
                                         get_component_weights, 5), R(15))

\* C20 amended: the regression profile scores Debt-to-Income = 90, Savings
\* Rate = 20 and Emergency Fund = 100/3 (60000/30000/6 x 100, below the cap),
\* and the composite is the weighted sum of the components plus 15 (505/12).
C20_FixtureScores ==
    (profile = Fixture /\ result # NoValue) =>
        /\ Comp("Debt-to-Income") = R(90)
        /\ Comp("Savings Rate") = R(20)
        /\ Comp("Emergency Fund") = [n |-> 100, d |-> 3]
        /\ result.FHI = RAdd(WeightedSum(result.components,
                                         get_component_weights, 5), R(15))
        /\ result.FHI = [n |-> 505, d |-> 12]

\* The regression profile was scored.
C20_Witness == profile = Fixture /\ result # NoValue /\ ~result.raised

MoneyFields ==
    {"monthly_income", "monthly_expenses", "monthly_savings", "monthly_debt",
     "total_investments", "net_worth", "emergency_fund"}

\* C14: for any percentage and absolute deltas, every field of the scenario
\* profile derived in the What-If sandbox is >= 0, given a baseline with
\* non-negative fields.
C14_ScenarioNonNegative ==
    scenario # NoValue => \A f \in MoneyFields : scenario[f] >= 0

\* A positive debt payment met a huge negative absolute delta and a positive
\* income met a percentage below -100%.
C14_Witness ==
    /\ scenario # NoValue
    /\ profile.monthly_debt > 0
    /\ scenario_delta.debt_abs_delta = -1000000
    /\ profile.monthly_income > 0
    /\ scenario_delta.income_pct = -150
    /\ scenario_delta.savings_pct = -100
    /\ scenario.monthly_debt = 0
    /\ scenario.monthly_income = 0

\* max(0, baseline x (1 + pct/100) + absoluteDelta), in exact arithmetic.
ScenarioValue(base, pct, abs) ==
    RMax(R(0), RAdd(RMul(R(base), RAdd(R(1), RDiv(R(pct), R(100)))), R(abs)))

\* C15: for each adjustable field the scenario value equals
\* max(0, baseline x (1 + pct/100) + absoluteDelta), the absolute delta
\* being 0 for a field that has none.
C15_ScenarioFormula ==
    scenario # NoValue =>
        /\ R(scenario.monthly_income)
              = ScenarioValue(profile.monthly_income, scenario_delta.income_pct, 0)
        /\ R(scenario.monthly_expenses)
              = ScenarioValue(profile.monthly_expenses,
                              scenario_delta.expenses_pct, 0)
        /\ R(scenario.monthly_savings)
              = ScenarioValue(profile.monthly_savings, scenario_delta.savings_pct,
                              scenario_delta.savings_abs_delta)
        /\ R(scenario.monthly_debt)
              = ScenarioValue(profile.monthly_debt, scenario_delta.debt_pct,
                              scenario_delta.debt_abs_delta)
        /\ R(scenario.total_investments)
              = ScenarioValue(profile.total_investments,
                              scenario_delta.invest_pct, 0)
        /\ R(scenario.emergency_fund)
              = ScenarioValue(profile.emergency_fund, scenario_delta.efund_pct, 0)

\* A percentage and an absolute delta acted together on savings and on debt,
\* and the debt result stayed above the floor.
C15_Witness ==
    /\ scenario # NoValue
    /\ profile.monthly_savings > 0
    /\ scenario_delta.savings_pct = 30
    /\ scenario_delta.savings_abs_delta = 1000
    /\ scenario_delta.debt_pct = 30
    /\ scenario_delta.debt_abs_delta = -3000
    /\ scenario.monthly_debt > 0

ZeroDelta ==
    [income_pct |-> 0, expenses_pct |-> 0, savings_pct |-> 0, debt_pct |-> 0,
     invest_pct |-> 0, efund_pct |-> 0, debt_abs_delta |-> 0,
     savings_abs_delta |-> 0]

\* C16: the no-op scenario (all percentage deltas 0, all absolute deltas 0)
\* yields a scenario profile equal field by field to the baseline.
C16_NoOpScenario ==
    (scenario # NoValue /\ scenario_delta = ZeroDelta) =>
        /\ scenario.age = profile.age
        /\ \A f \in MoneyFields : scenario[f] = profile[f]

\* The no-op scenario was applied to a baseline with positive amounts.
C16_Witness ==
    /\ scenario # NoValue
    /\ scenario_delta = ZeroDelta
    /\ \A f \in MoneyFields : profile[f] > 0

\* C17: deriving the scenario leaves the baseline inputs unmodified; net
\* worth and age of the scenario equal the baseline's for every delta; a
\* field whose percentage and absolute deltas are 0 keeps its value.
C17_ScenarioFrame ==
    [][(scenario = NoValue /\ scenario' # NoValue) =>
          /\ profile' = profile
          /\ scenario'.net_worth = profile.net_worth
          /\ scenario'.age = profile.age
          /\ scenario_delta.income_pct = 0
                => scenario'.monthly_income = profile.monthly_income
          /\ scenario_delta.expenses_pct = 0
                => scenario'.monthly_expenses = profile.monthly_expenses
          /\ (scenario_delta.savings_pct = 0
              /\ scenario_delta.savings_abs_delta = 0)
                => scenario'.monthly_savings = profile.monthly_savings
          /\ (scenario_delta.debt_pct = 0 /\ scenario_delta.debt_abs_delta = 0)
                => scenario'.monthly_debt = profile.monthly_debt
          /\ scenario_delta.invest_pct = 0
                => scenario'.total_investments = profile.total_investments
          /\ scenario_delta.efund_pct = 0
                => scenario'.emergency_fund = profile.emergency_fund]_vars

\* A scenario changed income and investments and left the rest alone.
C17_Witness ==
    /\ scenario # NoValue
    /\ profile.net_worth > 0
    /\ scenario_delta.invest_pct = 30
    /\ scenario_delta.income_pct = -100
    /\ scenario_delta.expenses_pct = 0
    /\ scenario_delta.efund_pct = 0
    /\ scenario.total_investments > profile.total_investments
    /\ scenario.monthly_income # profile.monthly_income
    /\ scenario.net_worth = profile.net_worth
    /\ scenario.monthly_expenses = profile.monthly_expenses

\* Position of a component in the fixed enumeration order.
Index(c) == CHOOSE i \in 1..Len(ComponentOrder) : ComponentOrder[i] = c

\* scenario[name] - baseline[name], and the same rounded to one decimal.
Difference(c) == RSub(new_components[c], old_components[c])
Rounded(c)    == Round1(Difference(c))

Negated(key) == [c \in ComponentNames |-> RSub(R(0), key[c])]

\* a is listed before b: smaller key first, equal keys in enumeration order.
Precedes(key, a, b) ==
    \/ RLt(key[a], key[b])
    \/ key[a] = key[b] /\ Index(a) < Index(b)

\* seq holds exactly the first k of the candidates ordered by key.
FirstK(seq, key, k, cand) ==
    /\ Len(seq) = (IF k < Cardinality(cand) THEN k ELSE Cardinality(cand))
    /\ \A i \in 1..Len(seq) : seq[i][1] \in cand
    /\ \A i, j \in 1..Len(seq) : i < j => Precedes(key, seq[i][1], seq[j][1])
    /\ \A c \in cand :
          (\A i \in 1..Len(seq) : seq[i][1] # c)
             => \A i \in 1..Len(seq) : Precedes(key, seq[i][1], c)

Listed(seq, c) == \E i \in 1..Len(seq) : seq[i][1] = c

\* C18 as stated, with delta = scenario[name] - baseline[name]: improved is
\* the first k of the components with positive delta ordered by delta
\* descending, declined the first k of those with negative delta ordered by
\* delta ascending, equal deltas in enumeration order.
C18_RankedByDifference ==
    movers # NoValue =>
        LET diff == [c \in ComponentNames |-> Difference(c)]
        IN  /\ FirstK(movers.up, Negated(diff), top_k,
                      {c \in ComponentNames : RLt(R(0), diff[c])})
            /\ FirstK(movers.down, diff, top_k,
                      {c \in ComponentNames : RLt(diff[c], R(0))})

\* C18, amended: the same selection and order hold for the delta rounded to
\* one decimal place, and the worked example gives improved
\* [(Emergency Fund, +20), (Net Worth, +5)] and declined
\* [(Investment, -10), (Debt-to-Income, -5)] for k = 2.
C18_RankedByRoundedDelta ==
    movers # NoValue =>
        LET dl == [c \in ComponentNames |-> Rounded(c)]
        IN  /\ FirstK(movers.up, Negated(dl), top_k,
                      {c \in ComponentNames : RLt(R(0), dl[c])})
            /\ FirstK(movers.down, dl, top_k,
                      {c \in ComponentNames : RLt(dl[c], R(0))})
            /\ (old_components = ExampleOld /\ new_components = ExampleNew
                /\ top_k = 2)
                  => /\ movers.up = <<<<"Emergency Fund", R(20)>>,
                                      <<"Net Worth", R(5)>>>>
                     /\ movers.down = <<<<"Investment", R(-10)>>,
                                        <<"Debt-to-Income", R(-5)>>>>

\* The worked example was ranked with k = 2.
C18_Witness ==
    /\ movers # NoValue
    /\ old_components = ExampleOld
    /\ new_components = ExampleNew
    /\ top_k = 2
    /\ Len(movers.up) = 2
    /\ Len(movers.down) = 2

\* C19 as stated: with k at least the number of components, a component is
\* improved iff scenario - baseline > 0, declined iff it is < 0, in neither
\* list iff it is exactly 0, never in both, and the reported delta is that
\* difference.
C19_MembershipByDifference ==
    (movers # NoValue /\ top_k >= Cardinality(ComponentNames)) =>
        \A c \in ComponentNames :
            /\ Listed(movers.up, c) <=> RLt(R(0), Difference(c))
            /\ Listed(movers.down, c) <=> RLt(Difference(c), R(0))
            /\ (~Listed(movers.up, c) /\ ~Listed(movers.down, c))
                  <=> Difference(c) = R(0)
            /\ ~(Listed(movers.up, c) /\ Listed(movers.down, c))
            /\ \A i \in 1..Len(movers.up) :
                  movers.up[i][1] = c => movers.up[i][2] = Difference(c)
            /\ \A i \in 1..Len(movers.down) :
                  movers.down[i][1] = c => movers.down[i][2] = Difference(c)

\* C19, amended: the same with the difference rounded to one decimal place,
\* which is the reported delta and lies within 0.05 of the difference.
C19_MembershipByRoundedDelta ==
    (movers # NoValue /\ top_k >= Cardinality(ComponentNames)) =>
        \A c \in ComponentNames :
            /\ Listed(movers.up, c) <=> RLt(R(0), Rounded(c))
            /\ Listed(movers.down, c) <=> RLt(Rounded(c), R(0))
            /\ (~Listed(movers.up, c) /\ ~Listed(movers.down, c))
                  <=> Rounded(c) = R(0)
            /\ ~(Listed(movers.up, c) /\ Listed(movers.down, c))
            /\ \A i \in 1..Len(movers.up) :
                  movers.up[i][1] = c => movers.up[i][2] = Rounded(c)
            /\ \A i \in 1..Len(movers.down) :
                  movers.down[i][1] = c => movers.down[i][2] = Rounded(c)
            /\ RLe(RAbs(RSub(Rounded(c), Difference(c))), [n |-> 1, d |-> 20])

\* All components were eligible, some improved, some declined, and one
\* moved by 0.04 and is in neither list.
C19_Witness ==
    /\ movers # NoValue
    /\ top_k = 5
    /\ Len(movers.up) > 0
    /\ Len(movers.down) > 0
    /\ \E c \in ComponentNames :
          /\ Difference(c) = [n |-> 1, d |-> 25]
          /\ ~Listed(movers.up, c)
          /\ ~Listed(movers.down, c)

Bracket(age) ==
    CASE age \in 18..25  -> "18-25"
      [] age \in 26..35  -> "26-35"
      [] age \in 36..50  -> "36-50"
      [] age \in 51..100 -> "50+"

\* The user's values less the reference values of the bracket.
PeerDifference ==
    LET ref == peer_averages[Bracket(inputs_for_pdf.age)]
    IN  [FHI           |-> RSub(FHI, R(ref.FHI)),
         SavingsRate   |-> RSub(components["Savings Rate"], R(ref.SavingsRate)),
         EmergencyFund |-> RSub(components["Emergency Fund"],
                                R(ref.EmergencyFund))]

PeerMetrics == {"FHI", "SavingsRate", "EmergencyFund"}

\* C23 as stated: every age in 18..100 falls in the bracket 18-25, 26-35,
\* 36-50 or 50+ (25, 35, 50 in the lower and 26, 36, 51 in the upper one) and
\* the benchmark reports for FHI, Savings Rate and Emergency Fund the signed
\* difference user value minus reference value.
C23_PeerDifferenceExact ==
    peer_report # NoValue =>
        /\ peer_report.age_group = Bracket(inputs_for_pdf.age)
        /\ \A m \in PeerMetrics : peer_report[m] = PeerDifference[m]

\* C23, amended: the same brackets, and the reported figure is the signed
\* difference rounded to a whole number (within 0.5 of the difference).
C23_PeerDifferenceRounded ==
    peer_report # NoValue =>
        /\ peer_report.age_group = Bracket(inputs_for_pdf.age)
        /\ \A m \in PeerMetrics :
              /\ peer_report[m].d = 1
              /\ RLe(RAbs(RSub(peer_report[m], PeerDifference[m])),
                     [n |-> 1, d |-> 2])

\* A profile aged 50 was compared with the 36-50 bracket and its FHI is not
\* a whole number of points away from the reference.
C23_Witness ==
    /\ peer_report # NoValue
    /\ inputs_for_pdf.age = 50
    /\ peer_report.age_group = "36-50"
    /\ peer_report.FHI # PeerDifference.FHI
    /\ RLt(peer_report.FHI, R(0))

\* The AgeBracketMultipliers table: <<lowest age, highest age, alpha, beta>>.
AgeBracketMultipliers ==
    {<<18, 29, [n |-> 5, d |-> 2], R(2)>>, <<30, 39, R(3), R(3)>>,
     <<40, 49, [n |-> 7, d |-> 2], R(4)>>, <<50, 100, R(4), R(5)>>}

Clamp100(x) == RMin(RMax(x, R(0)), R(100))

\* C24: calculate_fhi selects (alpha, beta) by age bracket as (2.5, 2.0) for
\* age < 30, (3.0, 3.0) for 30-39, (3.5, 4.0) for 40-49 and (4.0, 5.0) for
\* age >= 50, every age in 18..100 falling in exactly one bracket; Net Worth
\* is normalised by annualIncome x alpha and Investment by beta x
\* annualIncome, where annualIncome = 12 x monthlyIncome.
C24_AgeBracketMultipliers ==
    (result # NoValue /\ profile.age \in 18..100 /\ profile.monthly_income > 0) =>
        /\ Cardinality({b \in AgeBracketMultipliers :
                           profile.age \in b[1]..b[2]}) = 1
        /\ \A b \in AgeBracketMultipliers :
              profile.age \in b[1]..b[2] =>
                 LET annualIncome == R(12 * profile.monthly_income)
                 IN  /\ Comp("Net Worth")
                          = Clamp100(RMul(RDiv(R(profile.net_worth),
                                               RMul(annualIncome, b[3])),
                                          R(100)))
                     /\ Comp("Investment")
                          = Clamp100(RMul(RDiv(R(profile.total_investments),
                                               RMul(b[4], annualIncome)),
                                          R(100)))

\* A profile aged exactly 40 was scored with both normalised components
\* strictly inside (0, 100).
C24_Witness ==
    /\ result # NoValue
    /\ profile.age = 40
    /\ profile.monthly_income > 0
    /\ RLt(R(0), Comp("Net Worth")) /\ RLt(Comp("Net Worth"), R(100))
    /\ RLt(R(0), Comp("Investment")) /\ RLt(Comp("Investment"), R(100))

\* C25: when consent_processing is false at the time of
\* handle_calculation_click, calculate_fhi is not invoked and the session's
\* FHI, components, inputs_for_pdf and show_results are left unchanged.
C25_NoCalculationWithoutConsent ==
    [][(~session_consent_processing /\ run_outcome' # run_outcome) =>
          /\ scorer_calls' = <<>>
          /\ run_outcome' = "stop_consent"
          /\ UNCHANGED <<FHI, components, inputs_for_pdf, show_results>>]_vars

\* The handler was called without processing consent on inputs it would
\* otherwise have scored, in a session that held earlier results.
C25_Witness ==
    /\ run_outcome = "stop_consent"
    /\ ~consent_processing
    /\ form.monthly_income > 0
    /\ form.monthly_expenses > 0
    /\ form.monthly_debt <= form.monthly_income
    /\ FHI # NoValue
    /\ inputs_for_pdf = Fixture
    /\ scorer_calls = <<>>

\* C26: while consent_storage is false, no calculation, what-if save or chat
\* submission writes a row to any sheet, and a chat event is written only
\* when analytics_opt_in is true as well.
C26_StorageConsentRespected ==
    [][/\ ~consent_storage => sheet_writes' = sheet_writes
       /\ ~analytics_opt_in =>
             \A r \in sheet_writes' \ sheet_writes : r.sheet # "Chat_Events"]_vars

\* Every logging operation ran for a signed-in email user who had not
\* allowed storage, with analytics on, and nothing was written.
C26_Witness ==
    /\ ~consent_storage
    /\ analytics_opt_in
    /\ auth_method = "email"
    /\ storage_ops = {"calculation", "whatif", "chat", "calc_log"}
    /\ sheet_writes = {}

\* Outcomes of script runs that got past require_consent_gate.
MainAppOutcomes ==
    {"rendered", "calculated", "stop_errors", "stop_degenerate", "stop_consent"}

\* C27: no run reaches the main application while consent_ready is false;
\* consent_ready only becomes true by submitting the privacy form with
\* consent_processing checked; whenever consent_ready is true the saved
\* snapshot has consent_processing = true.
C27_ConsentGateIsHardStop ==
    /\ [](~consent_ready =>
             /\ run_outcome \notin MainAppOutcomes
             /\ sandbox = NoValue
             /\ scorer_calls = <<>>)
    /\ [](consent_ready =>
             /\ consent_snapshot # NoValue
             /\ consent_snapshot.consent_processing)
    /\ [][(run_outcome' \in MainAppOutcomes /\ run_outcome' # run_outcome)
             => consent_ready]_vars
    /\ [][(~consent_ready /\ consent_ready')
             => /\ run_outcome' = "consent_saved"
                /\ consent_processing']_vars

\* The calculator ran after the preferences had been saved.
C27_Witness ==
    /\ consent_ready
    /\ consent_snapshot.consent_processing
    /\ run_outcome = "calculated"
    /\ sandbox # NoValue

\* C28: starting from a Users sheet without duplicates, after any sequence
\* of upsert_user_row calls, including calls of two sessions whose read and
\* write steps interleave, no user_id occurs in more than one row.
C28_OneRowPerUser ==
    \A i, j \in 1..Len(users_rows) :
        users_rows[i].user_id = users_rows[j].user_id => i = j

AllFailed(log) == \A k \in 1..Len(log) : ~log[k].ok

\* C29: with_backoff(fn, tries) invokes fn at most tries times, stops at and
\* returns the result of the first invocation that succeeds, retries after
\* every failure except the last, and when all tries invocations fail it
\* re-raises the exception of the final attempt rather than returning.
C29_BackoffContract ==
    LET n == Len(backoff_log)
    IN  /\ n <= backoff_tries
        /\ \A k \in 1..n : backoff_log[k].ok => k = n
        /\ (n > 0 /\ backoff_log[n].ok)
              => backoff_outcome = Returned(backoff_log[n].value)
        /\ (n > 0 /\ AllFailed(backoff_log) /\ n < backoff_tries)
              => /\ backoff_outcome = NoValue
                 /\ backoff_pc \in {"sleep", "call"}
        /\ (n = backoff_tries /\ AllFailed(backoff_log))
              => backoff_outcome = Raised(backoff_log[n].exc)
        /\ backoff_pc = "done" <=> backoff_outcome # NoValue
        /\ backoff_pc = "call" => backoff_i = n

\* Three attempts failed and were retried, the fourth and last failed with a
\* different exception, which was raised.
C29_Witness ==
    /\ backoff_tries = 4
    /\ Len(backoff_log) = 4
    /\ AllFailed(backoff_log)
    /\ backoff_log[1].exc = "APIError"
    /\ backoff_outcome = Raised("Timeout")

\* C30: after every chat submission followed by prune_chat_history, the
\* history in 'ephemeral' mode contains only the latest exchange, and in
\* 'session' mode at most the 50 most recent entries in their original order.
C30_ChatRetention ==
    chat_count > 0 =>
        /\ retention_mode = "ephemeral" => chat_history = <<chat_count>>
        /\ retention_mode = "session" =>
              /\ Len(chat_history) <= 50
              /\ Len(chat_history) = (IF chat_count < 50 THEN chat_count ELSE 50)
              /\ \A k \in 1..Len(chat_history) :
                    chat_history[k] = chat_count - Len(chat_history) + k

====
